---------------------------- MODULE Spec2Model ----------------------------
(***************************************************************************)
(* A model of maggma's builder Runner (maggma/runner.py) and of the lava   *)
(* record Differ exercised by maggma/lava/tests/test_diff.py.              *)
(*                                                                         *)
(* The Runner owns a list of builders, derives a dependency graph from     *)
(* their sources and targets, and runs every builder through one of two    *)
(* backends: the multiprocessing backend (serial when num_workers = 1) and *)
(* the MPI backend (rank 0 distributes, ranks 1..size-1 work).             *)
(***************************************************************************)
EXTENDS Integers, Sequences, FiniteSets, TLC

\* ------------------------------------------------------------------ bounds
NumBuilders == 3      \* builders handed to the Runner
MaxItems == 3         \* items one get_items() yields
MaxWorkers == 2       \* num_workers of the multiprocessing backend
MaxSize == 3          \* MPI ranks (rank 0 and the worker ranks)
NumRecords == 2       \* distinct key values of the records handed to Differ.diff
RecursionLimit == 5   \* frames of _build_dependencies the interpreter allows
MaxRuns == 2          \* calls of run() on one Runner
MaxValue == 10        \* largest magnitude of the values handed to Delta.cmp beside the tests' own

Builders == 1..NumBuilders
Names == {"a", "b"}

\* ----------------------------------------------------------------- helpers
Range(s) == {s[k] : k \in DOMAIN s}

InSeq(x, s) == \E k \in DOMAIN s : s[k] = x

\* all(self.status)
All(s) == \A k \in DOMAIN s : s[k]

\* the lists of names a builder declares as its sources or its targets
NameLists == {<< >>, <<"a">>, <<"b">>, <<"a", "b">>}

\* the lists of items a get_items() yields; an item is the key of its result:
\* m items with distinct keys, or m items with the same key
ItemLists ==
    {[k \in 1..m |-> k] : m \in 0..MaxItems} \cup {[k \in 1..m |-> 1] : m \in 2..MaxItems}

\* ------------------------------------------------------------------- state
VARIABLES
    sources,           \* builder -> list of source names
    targets,           \* builder -> list of target names
    get_items,         \* builder -> the items its get_items() yields
    use_mpi,           \* Runner.use_mpi
    num_workers,       \* Runner.num_workers
    dependency_graph,  \* Runner.dependency_graph (links_dict)
    has_run,           \* Runner.has_run
    status,            \* Runner.status
    queue,             \* Runner._queue
    processed_items,   \* Runner.processed_items
    pc,                \* position of the process that executes run()
    loop_i,            \* index of run()'s for loop
    runs,              \* calls of run() made on this Runner
    stack,             \* active frames of _build_dependencies
    wpc,               \* worker process -> position in Runner.worker
    wpkt,              \* worker process -> packet it holds
    calls,             \* builder -> calls made on it, in order
    handed,            \* builder -> mappings passed to update_targets
    exitcodes,         \* builder -> exit codes of the workers started for it
    dequeued,          \* packets taken from the queue, each with the builder then running
    taken,             \* builder -> item position -> times its packet was dequeued
    procd,             \* builder -> item position -> process_item calls made for it
    raised,            \* builders during whose run a process_item has raised
    size,              \* comm.Get_size()
    eager,             \* whether comm.send returns before the matching receive
    chan,              \* worker rank -> messages sent to it and not yet received
    rpc,               \* worker rank -> position in Runner.worker
    rbuf,              \* worker rank -> the packet it processes or the result it sends
    rruns,             \* worker rank -> termination signals it has received
    worker_id,         \* next value of cycle(range(1, size))
    n,                 \* items sent for the running builder
    recv_i,            \* receives done for the running builder
    kill_i,            \* termination signals sent for the running builder
    processed_items_dict,  \* the coordinator's local results mapping
    nrecv,             \* builder -> receives the coordinator performed for it
    sent,              \* worker rank -> results it has passed to comm.ssend
    got,               \* worker rank -> results of it the coordinator has received
    kills,             \* builder -> destinations of its termination signals
    coll_a,            \* first collection handed to Differ.diff: key -> record
    coll_b,            \* second collection handed to Differ.diff: key -> record
    props,             \* Differ.props: fields compared by equality
    deltas,            \* Differ.deltas: field -> Delta rule
    result,            \* what Differ.diff returned: bucket -> entries
    extra,             \* keys of the records test_key_different inserted, one per collection
    cmp_rule,          \* the Delta rule d of a call d.cmp(old, new)
    cmp_old,           \* old of that call
    cmp_new,           \* new of that call
    cmp_out            \* << >> before the call, then <<what d.cmp(old, new) returned>>

vars == <<sources, targets, get_items, use_mpi, num_workers, dependency_graph,
          has_run, status, queue, processed_items, pc, loop_i, runs, stack, wpc,
          wpkt, calls, handed, exitcodes, dequeued, taken, procd, raised, size,
          eager, chan,
          rpc, rbuf, rruns, worker_id, n, recv_i, kill_i, processed_items_dict,
          nrecv, kills, sent, got, coll_a, coll_b, props, deltas, result, extra,
          cmp_rule, cmp_old, cmp_new, cmp_out>>

cmpvars == <<cmp_rule, cmp_old, cmp_new, cmp_out>>

diffvars == <<coll_a, coll_b, props, deltas, result, extra, cmpvars>>

mpivars == <<size, eager, chan, rpc, rbuf, rruns, worker_id, n, recv_i, kill_i,
             processed_items_dict, nrecv, kills, sent, got>>

config == <<sources, targets, get_items, use_mpi, num_workers, dependency_graph>>

Workers == 1..MaxWorkers

Ranks == 1..(MaxSize - 1)

NoPacket == << >>

Top == stack[Len(stack)]

\* The builder whose _run_builder is executing; 0 when none is.
Running ==
    IF pc \in {"run", "call", "loop", "done", "aborted", "killed"} THEN 0 ELSE Top.id

\* ----------------------------------------------- _get_builder_dependency_graph
\* the inner loop over bi.sources for one pair (i, j)
LinksOfPair(src, tgt, i, j) ==
    LET hit == SelectSeq(src[i], LAMBDA s : InSeq(s, tgt[j]))
    IN [k \in 1..Len(hit) |-> j]

RECURSIVE LinksUpTo(_, _, _, _)
LinksUpTo(src, tgt, i, j) ==
    IF j = 0 THEN << >>
    ELSE LinksUpTo(src, tgt, i, j - 1)
         \o (IF i # j THEN LinksOfPair(src, tgt, i, j) ELSE << >>)

\* mutant: the test i != j is missing
RECURSIVE LinksUpToWithSelf(_, _, _, _)
LinksUpToWithSelf(src, tgt, i, j) ==
    IF j = 0 THEN << >>
    ELSE LinksUpToWithSelf(src, tgt, i, j - 1) \o LinksOfPair(src, tgt, i, j)

GetBuilderDependencyGraphWithSelf(src, tgt) ==
    [i \in Builders |-> LinksUpToWithSelf(src, tgt, i, NumBuilders)]

\* mutant: the test of a dependency reversed (bj.sources against bi.targets)
GetBuilderDependencyGraphReversed(src, tgt) ==
    [i \in Builders |-> LinksUpTo(tgt, src, i, NumBuilders)]

GetBuilderDependencyGraph(src, tgt) ==
    [i \in Builders |-> LinksUpTo(src, tgt, i, NumBuilders)]

\* packet = (builder_id, item); the model keeps the item's position in
\* get_items() beside it to tell equal items apart
Packet(b, k) == <<b, get_items[b][k], k>>

\* process_item's result for one item: a mapping with one key
ProcessItem(b, item) == [k \in {item} |-> <<b, item>>]

Count(f, b, k) == [f EXCEPT ![b][k] = @ + 1]

\* mutant: the results mapping is replaced, not updated
Overwrite(d, e) == e

\* dict.update
Update(d, e) == [k \in DOMAIN d \cup DOMAIN e |-> IF k \in DOMAIN e THEN e[k] ELSE d[k]]

EmptyDict == [k \in {} |-> 0]

Log(b, c) == [calls EXCEPT ![b] = Append(@, c)]

\* ---------------------------------------------------------------- __init__
InitRunner ==
    /\ dependency_graph = GetBuilderDependencyGraph(sources, targets)
    /\ has_run = << >>
    /\ status = << >>
    /\ queue = << >>
    /\ processed_items = EmptyDict
    /\ pc = "run"
    /\ loop_i = 1
    /\ runs = 1
    /\ stack = << >>
    /\ wpc = [w \in Workers |-> "idle"]
    /\ wpkt = [w \in Workers |-> NoPacket]
    /\ calls = [b \in Builders |-> << >>]
    /\ handed = [b \in Builders |-> << >>]
    /\ exitcodes = [b \in Builders |-> << >>]
    /\ dequeued = {}
    /\ taken = [b \in Builders |-> [k \in 1..Len(get_items[b]) |-> 0]]
    /\ procd = [b \in Builders |-> [k \in 1..Len(get_items[b]) |-> 0]]
    /\ raised = {}
    /\ chan = [r \in Ranks |-> << >>]
    /\ rpc = [r \in Ranks |-> IF use_mpi /\ r < size THEN "recv" ELSE "none"]
    /\ rbuf = [r \in Ranks |-> NoPacket]
    /\ rruns = [r \in Ranks |-> 0]
    /\ worker_id = 1
    /\ n = 0
    /\ recv_i = 0
    /\ kill_i = 0
    /\ processed_items_dict = EmptyDict
    /\ nrecv = [b \in Builders |-> 0]
    /\ sent = [r \in Ranks |-> 0]
    /\ got = [r \in Ranks |-> 0]
    /\ kills = [b \in Builders |-> << >>]

\* no diff is under way
NoDiff ==
    /\ coll_a = EmptyDict
    /\ coll_b = EmptyDict
    /\ props = {}
    /\ deltas = EmptyDict
    /\ result = EmptyDict
    /\ extra = << >>
    /\ cmp_rule = EmptyDict
    /\ cmp_old = 0
    /\ cmp_new = 0
    /\ cmp_out = << >>

\* --------------------------------------------------------------------- run
\* for i, b in enumerate(self.builders): self._build_dependencies(i)
Run ==
    /\ pc = "run"
    /\ IF loop_i <= NumBuilders
       THEN /\ stack' = <<[id |-> loop_i, k |-> 0]>>
            /\ loop_i' = loop_i + 1
            /\ pc' = "call"
       ELSE /\ pc' = "done"
            /\ UNCHANGED <<stack, loop_i>>
    /\ UNCHANGED <<config, runs, has_run, status, queue, processed_items, wpc, wpkt,
                   calls, handed, exitcodes, dequeued, taken, raised, procd, mpivars, diffvars>>

\* runner.run() is called again on the same Runner after run() has returned
RunAgain ==
    /\ pc = "done"
    /\ runs < MaxRuns
    /\ runs' = runs + 1
    /\ pc' = "run"
    /\ loop_i' = 1
    /\ UNCHANGED <<config, has_run, status, queue, processed_items, stack, wpc, wpkt,
                   calls, handed, exitcodes, dequeued, taken, raised, procd, mpivars, diffvars>>

\* ------------------------------------------------------ _build_dependencies
Return(stk) == IF Len(stk) = 1 THEN "run" ELSE "loop"

Pop(stk) == SubSeq(stk, 1, Len(stk) - 1)

\* mutant: has_run is not consulted
NeverRun(b) == FALSE

\* if builder_id in self.has_run: return
AlreadyRun(b) == InSeq(b, has_run)

BuildDependenciesEnter ==
    /\ pc = "call"
    /\ IF AlreadyRun(Top.id)
       THEN /\ pc' = Return(stack)
            /\ stack' = Pop(stack)
       ELSE /\ pc' = "loop"
            /\ UNCHANGED stack
    /\ UNCHANGED <<config, runs, has_run, status, queue, processed_items, loop_i,
                   wpc, wpkt, calls, handed, exitcodes, dequeued, taken, raised, procd, mpivars, diffvars>>

\* for j in self.dependency_graph[builder_id]: self._build_dependencies(j),
\* then self._run_builder(builder_id)
BuildDependenciesLoop ==
    /\ pc = "loop"
    /\ LET deps == dependency_graph[Top.id]
       IN IF Top.k < Len(deps)
          THEN IF Len(stack) >= RecursionLimit
               THEN /\ pc' = "aborted"
                    /\ UNCHANGED stack
               ELSE /\ stack' = Append([stack EXCEPT ![Len(stack)].k = Top.k + 1],
                                       [id |-> deps[Top.k + 1], k |-> 0])
                    /\ pc' = "call"
          ELSE /\ pc' = IF use_mpi THEN "mpi_connect" ELSE "mp_connect"
               /\ UNCHANGED stack
    /\ UNCHANGED <<config, runs, has_run, status, queue, processed_items, loop_i,
                   wpc, wpkt, calls, handed, exitcodes, dequeued, taken, raised, procd, mpivars, diffvars>>

\* self.has_run.append(builder_id)
MarkRun ==
    /\ pc = "mark"
    /\ has_run' = Append(has_run, Top.id)
    /\ pc' = Return(stack)
    /\ stack' = Pop(stack)
    /\ UNCHANGED <<config, runs, status, queue, processed_items, loop_i, wpc, wpkt,
                   calls, handed, exitcodes, dequeued, taken, raised, procd, mpivars, diffvars>>

\* ------------------------------------------------ _run_builder_in_multiproc
\* builder.connect(sources=True)
MultiprocConnectSources ==
    /\ pc = "mp_connect"
    /\ calls' = Log(Top.id, "connect_sources")
    /\ pc' = "mp_put"
    /\ UNCHANGED <<config, runs, has_run, status, queue, processed_items, loop_i,
                   stack, wpc, wpkt, handed, exitcodes, dequeued, taken, raised, procd, mpivars, diffvars>>

\* for item in builder.get_items(): self._queue.put((builder_id, item))
MultiprocPutItems ==
    /\ pc = "mp_put"
    /\ calls' = Log(Top.id, "get_items")
    /\ queue' = queue \o [k \in 1..Len(get_items[Top.id]) |->
                              Packet(Top.id, k)]
    /\ pc' = IF num_workers > 1 THEN "mp_start" ELSE "mp_serial"
    /\ UNCHANGED <<config, runs, has_run, status, processed_items, loop_i, stack,
                   wpc, wpkt, handed, exitcodes, dequeued, taken, raised, procd, mpivars, diffvars>>

\* for i in range(self.num_workers): proc.start()
MultiprocStartWorkers ==
    /\ pc = "mp_start"
    /\ wpc' = [w \in Workers |-> IF w <= num_workers THEN "get" ELSE "idle"]
    /\ pc' = "mp_join"
    /\ UNCHANGED <<config, runs, has_run, status, queue, processed_items, loop_i,
                   stack, wpkt, calls, handed, exitcodes, dequeued, taken, raised, procd, mpivars, diffvars>>

\* processes[i].join(); self.status.append(not bool(code))
ExitCode(w) == IF wpc[w] = "exit0" THEN 0 ELSE 1

MultiprocJoin ==
    /\ pc = "mp_join"
    /\ \A w \in 1..num_workers : wpc[w] \in {"exit0", "exit1"}
    /\ status' = status \o [w \in 1..num_workers |-> ExitCode(w) = 0]
    /\ exitcodes' = [exitcodes EXCEPT ![Top.id] =
                        @ \o [w \in 1..num_workers |-> ExitCode(w)]]
    /\ wpc' = [w \in Workers |-> "idle"]
    /\ pc' = "mp_connect_tgt"
    /\ UNCHANGED <<config, runs, has_run, queue, processed_items, loop_i, stack,
                   wpkt, calls, handed, dequeued, taken, raised, procd, mpivars, diffvars>>

\* self._queue.get(): the queue without its head
Dequeue(q) == Tail(q)

\* num_workers = 1: self.worker() in the process that executes run(); one
\* iteration of the worker loop, or the queue.Empty that ends it
\* mutant: the error is swallowed and the worker loop goes on
SerialSwallow == "mp_serial"

SerialRaise == "aborted"

MultiprocSerialWorker ==
    /\ pc = "mp_serial"
    /\ IF queue # << >>
       THEN LET packet == Head(queue)
            IN /\ queue' = Dequeue(queue)
               /\ dequeued' = dequeued \cup {<<packet[1], packet[3], Top.id>>}
               /\ taken' = Count(taken, packet[1], packet[3])
               /\ procd' = Count(procd, packet[1], packet[3])
               /\ \E ok \in BOOLEAN :
                     IF ok
                     THEN /\ processed_items' =
                                Update(processed_items, ProcessItem(packet[1], packet[2]))
                          /\ UNCHANGED <<pc, raised>>
                     ELSE /\ pc' = SerialRaise
                          /\ raised' = raised \cup {Top.id}
                          /\ UNCHANGED processed_items
               /\ UNCHANGED status
       ELSE /\ status' = Append(status, TRUE)
            /\ pc' = "mp_connect_tgt"
            /\ UNCHANGED <<queue, processed_items, dequeued, taken, procd, raised>>
    /\ UNCHANGED <<config, runs, has_run, loop_i, stack, wpc, wpkt, calls, handed,
                   exitcodes, mpivars, diffvars>>

\* builder.connect(sources=False)
MultiprocConnectTargets ==
    /\ pc = "mp_connect_tgt"
    /\ calls' = Log(Top.id, "connect_targets")
    /\ pc' = "mp_update"
    /\ UNCHANGED <<config, runs, has_run, status, queue, processed_items, loop_i,
                   stack, wpc, wpkt, handed, exitcodes, dequeued, taken, raised, procd, mpivars, diffvars>>

\* builder.update_targets(self.processed_items)
MultiprocUpdateTargets ==
    /\ pc = "mp_update"
    /\ calls' = Log(Top.id, "update_targets")
    /\ handed' = [handed EXCEPT ![Top.id] = Append(@, processed_items)]
    /\ pc' = "mp_finalize"
    /\ UNCHANGED <<config, runs, has_run, status, queue, processed_items, loop_i,
                   stack, wpc, wpkt, exitcodes, dequeued, taken, raised, procd, mpivars, diffvars>>

\* mutant: finalize whatever the status
FinalizeAlways == TRUE

\* if all(self.status): self.builders[builder_id].finalize()
FinalizeGate == All(status)

MultiprocFinalize ==
    /\ pc = "mp_finalize"
    /\ calls' = IF FinalizeGate THEN Log(Top.id, "finalize") ELSE calls
    /\ pc' = "mark"
    /\ UNCHANGED <<config, runs, has_run, status, queue, processed_items, loop_i,
                   stack, wpc, wpkt, handed, exitcodes, dequeued, taken, raised, procd, mpivars, diffvars>>

\* ------------------------------------------- worker (multiprocessing branch)
\* packet = self._queue.get(timeout=2)
WorkerGet(w) ==
    /\ wpc[w] = "get"
    /\ queue # << >>
    /\ wpkt' = [wpkt EXCEPT ![w] = Head(queue)]
    /\ queue' = Dequeue(queue)
    /\ dequeued' = dequeued \cup {<<Head(queue)[1], Head(queue)[3], Top.id>>}
    /\ taken' = Count(taken, Head(queue)[1], Head(queue)[3])
    /\ wpc' = [wpc EXCEPT ![w] = "proc"]
    /\ UNCHANGED <<config, runs, has_run, status, processed_items, pc, loop_i, stack,
                   calls, handed, exitcodes, raised, procd, mpivars, diffvars>>

\* processed_item = self.builders[builder_id].process_item(item)
\* self.processed_items.update(processed_item)
WorkerProcess(w) ==
    /\ wpc[w] = "proc"
    /\ \E ok \in BOOLEAN :
          IF ok
          THEN /\ processed_items' =
                     Update(processed_items, ProcessItem(wpkt[w][1], wpkt[w][2]))
               /\ wpc' = [wpc EXCEPT ![w] = "get"]
               /\ UNCHANGED raised
          ELSE /\ wpc' = [wpc EXCEPT ![w] = "exit1"]
               /\ raised' = raised \cup {Top.id}
               /\ UNCHANGED processed_items
    /\ procd' = Count(procd, wpkt[w][1], wpkt[w][3])
    /\ wpkt' = [wpkt EXCEPT ![w] = NoPacket]
    /\ UNCHANGED <<config, runs, has_run, status, queue, pc, loop_i, stack, calls,
                   handed, exitcodes, dequeued, taken, mpivars, diffvars>>

\* except queue.Empty: break
WorkerEmpty(w) ==
    /\ wpc[w] = "get"
    /\ queue = << >>
    /\ wpc' = [wpc EXCEPT ![w] = "exit0"]
    /\ UNCHANGED <<config, runs, has_run, status, queue, processed_items, pc, loop_i,
                   stack, wpkt, calls, handed, exitcodes, dequeued, taken, raised, procd, mpivars, diffvars>>

\* ------------------------------------------------------ _run_builder_in_mpi
localvars == <<queue, processed_items, wpc, wpkt, exitcodes, dequeued, taken>>

None == << >>

\* next(worker_id) of cycle(range(1, size))
NextWorker(w) == IF w >= size - 1 THEN 1 ELSE w + 1

\* comm.send(msg, dest) can return: the message is buffered, or the
\* destination rank is waiting in its receive
CanSend(dest) == eager \/ (rpc[dest] = "recv" /\ chan[dest] = << >>)

\* builder.connect(sources=True); worker_id = cycle(range(1, size)); n = 0
MpiConnectSources ==
    /\ pc = "mpi_connect"
    /\ calls' = Log(Top.id, "connect_sources")
    /\ processed_items_dict' = EmptyDict
    /\ worker_id' = 1
    /\ n' = 0
    /\ pc' = "mpi_items"
    /\ UNCHANGED <<config, runs, has_run, status, loop_i, stack, handed, raised, procd,
                   localvars, size, eager, chan, rpc, rbuf, rruns, recv_i,
                   kill_i, nrecv, kills, sent, got, diffvars>>

\* for item in builder.get_items(): the generator is created
MpiGetItems ==
    /\ pc = "mpi_items"
    /\ calls' = Log(Top.id, "get_items")
    /\ pc' = "mpi_send"
    /\ UNCHANGED <<config, runs, has_run, status, loop_i, stack, handed, raised, procd,
                   localvars, mpivars, diffvars>>

\* comm.send((builder_id, item), dest=next(worker_id)); n = n + 1
\* and, once the items are exhausted, the start of the receive loop
MpiSendItem ==
    /\ pc = "mpi_send"
    /\ IF n < Len(get_items[Top.id])
       THEN /\ CanSend(worker_id)
            /\ chan' = [chan EXCEPT ![worker_id] = Append(@, Packet(Top.id, n + 1))]
            /\ worker_id' = NextWorker(worker_id)
            /\ n' = n + 1
            /\ UNCHANGED <<pc, recv_i>>
       ELSE /\ pc' = "mpi_recv"
            /\ recv_i' = 0
            /\ UNCHANGED <<chan, worker_id, n>>
    /\ UNCHANGED <<config, runs, has_run, status, loop_i, stack, calls, handed,
                   raised, procd, localvars, size, eager, rpc, rbuf, rruns, kill_i,
                   processed_items_dict, nrecv, kills, sent, got, diffvars>>

\* for i in range(n): processed_item = comm.recv(); self.status.append(True);
\* processed_items_dict.update(processed_item)
\* and, after n receives, the start of the termination loop
ReceivesWanted == n

MpiRecv ==
    /\ pc = "mpi_recv"
    /\ IF recv_i < ReceivesWanted
       THEN \E r \in Ranks :
               /\ rpc[r] = "ssend"
               /\ processed_items_dict' = Update(processed_items_dict, rbuf[r])
               /\ status' = Append(status, TRUE)
               /\ recv_i' = recv_i + 1
               /\ nrecv' = [nrecv EXCEPT ![Top.id] = @ + 1]
               /\ got' = [got EXCEPT ![r] = @ + 1]
               /\ rpc' = [rpc EXCEPT ![r] = "recv"]
               /\ rbuf' = [rbuf EXCEPT ![r] = NoPacket]
               /\ UNCHANGED <<pc, kill_i>>
       ELSE /\ pc' = "mpi_kill"
            /\ kill_i' = 0
            /\ UNCHANGED <<processed_items_dict, status, recv_i, nrecv, got, rpc, rbuf>>
    /\ UNCHANGED <<config, runs, has_run, loop_i, stack, calls, handed, raised, procd,
                   localvars, size, eager, chan, rruns, worker_id, n, kills, sent,
                   diffvars>>

\* mutant: range(size)
KillsOffByOne == size

\* for _ in range(size - 1): comm.send(None, dest=next(worker_id))
KillsWanted == size - 1

MpiKillWorkers ==
    /\ pc = "mpi_kill"
    /\ IF kill_i < KillsWanted
       THEN /\ CanSend(worker_id)
            /\ chan' = [chan EXCEPT ![worker_id] = Append(@, None)]
            /\ kills' = [kills EXCEPT ![Top.id] = Append(@, worker_id)]
            /\ worker_id' = NextWorker(worker_id)
            /\ kill_i' = kill_i + 1
            /\ UNCHANGED pc
       ELSE /\ pc' = "mpi_connect_tgt"
            /\ UNCHANGED <<chan, kills, worker_id, kill_i>>
    /\ UNCHANGED <<config, runs, has_run, status, loop_i, stack, calls, handed,
                   raised, procd, localvars, size, eager, rpc, rbuf, rruns, n, recv_i,
                   processed_items_dict, nrecv, sent, got, diffvars>>

\* builder.connect(sources=False)
MpiConnectTargets ==
    /\ pc = "mpi_connect_tgt"
    /\ calls' = Log(Top.id, "connect_targets")
    /\ pc' = "mpi_update"
    /\ UNCHANGED <<config, runs, has_run, status, loop_i, stack, handed, raised, procd,
                   localvars, mpivars, diffvars>>

\* builder.update_targets(processed_items_dict)
MpiUpdateTargets ==
    /\ pc = "mpi_update"
    /\ calls' = Log(Top.id, "update_targets")
    /\ handed' = [handed EXCEPT ![Top.id] = Append(@, processed_items_dict)]
    /\ pc' = "mpi_finalize"
    /\ UNCHANGED <<config, runs, has_run, status, loop_i, stack, raised, procd, localvars,
                   mpivars, diffvars>>

\* if all(self.status): builder.finalize()
MpiFinalize ==
    /\ pc = "mpi_finalize"
    /\ calls' = IF All(status) THEN Log(Top.id, "finalize") ELSE calls
    /\ pc' = "mark"
    /\ UNCHANGED <<config, runs, has_run, status, loop_i, stack, handed, raised, procd,
                   localvars, mpivars, diffvars>>

\* ------------------------------------------------------ worker (MPI branch)
\* packet = comm.recv(source=0); if packet is None: break
\* A rank that leaves the loop returns from its own _run_builder and enters
\* worker() again for its next builder.
RankRecv(r) ==
    /\ rpc[r] = "recv"
    /\ chan[r] # << >>
    /\ chan' = [chan EXCEPT ![r] = Tail(@)]
    /\ IF Head(chan[r]) = None
       THEN /\ rruns' = [rruns EXCEPT ![r] = @ + 1]
            /\ rpc' = [rpc EXCEPT ![r] =
                          IF rruns[r] + 1 >= NumBuilders THEN "done" ELSE "recv"]
            /\ UNCHANGED rbuf
       ELSE /\ rbuf' = [rbuf EXCEPT ![r] = Head(chan[r])]
            /\ rpc' = [rpc EXCEPT ![r] = "proc"]
            /\ UNCHANGED rruns
    /\ UNCHANGED <<config, runs, has_run, status, pc, loop_i, stack, calls, handed,
                   raised, procd, localvars, size, eager, worker_id, n, recv_i, kill_i,
                   processed_items_dict, nrecv, kills, sent, got, diffvars>>

\* processed_item = self.builders[builder_id].process_item(item), then the
\* start of comm.ssend(processed_item, 0); an exception ends the rank
RankRaise == "dead"

\* mutant: comm.send, which returns once the result is buffered
AfterSend == "recv"

\* comm.ssend(processed_item, 0) returns when the coordinator receives
AfterSsend == "ssend"

RankProcess(r) ==
    /\ rpc[r] = "proc"
    /\ \E ok \in BOOLEAN :
          IF ok
          THEN /\ rbuf' = [rbuf EXCEPT ![r] = ProcessItem(rbuf[r][1], rbuf[r][2])]
               /\ rpc' = [rpc EXCEPT ![r] = AfterSsend]
               /\ sent' = [sent EXCEPT ![r] = @ + 1]
               /\ UNCHANGED raised
          ELSE /\ rbuf' = [rbuf EXCEPT ![r] = NoPacket]
               /\ rpc' = [rpc EXCEPT ![r] = RankRaise]
               /\ raised' = raised \cup {rbuf[r][1]}
               /\ UNCHANGED sent
    /\ procd' = Count(procd, rbuf[r][1], rbuf[r][3])
    /\ UNCHANGED <<config, runs, has_run, status, pc, loop_i, stack, calls, handed,
                   localvars, size, eager, chan, rruns, worker_id, n, recv_i,
                   kill_i, processed_items_dict, nrecv, kills, got, diffvars>>

\* The MPI launcher may end the whole job once a rank has died.
MpiJobKilled ==
    /\ \E r \in Ranks : rpc[r] = "dead"
    /\ pc \notin {"done", "killed"}
    /\ pc' = "killed"
    /\ rpc' = [r \in Ranks |-> IF rpc[r] \in {"none", "done"} THEN rpc[r] ELSE "dead"]
    /\ UNCHANGED <<config, runs, has_run, status, loop_i, stack, calls, handed,
                   raised, procd, localvars, size, eager, chan, rbuf, rruns, worker_id,
                   n, recv_i, kill_i, processed_items_dict, nrecv, kills, sent, got,
                   diffvars>>

\* ------------------------------------------------------------------ Delta
\* A Delta rule as parsed: mode, thresholds (in tenths, Undefined when the
\* sign is absent from the rule), inclusive ("=") and percentage ("%") flags.
Tenth == 10

Undefined == -1

Rule(mode, plus, minus, inclusive, percentage) ==
    [mode |-> mode, plus |-> plus, minus |-> minus, inclusive |-> inclusive,
     percentage |-> percentage]

Abs(x) == IF x < 0 THEN -x ELSE x

\* magnitude > threshold, or >= when inclusive, the magnitude being
\* |diff| or, in percentage mode, |100 * diff / old|
Exceeds(rule, diff, old, threshold) ==
    IF rule.percentage
    THEN IF old = 0 THEN FALSE
         ELSE IF rule.inclusive
              THEN 100 * Abs(diff) * Tenth >= threshold * Abs(old)
              ELSE 100 * Abs(diff) * Tenth > threshold * Abs(old)
    ELSE IF rule.inclusive
         THEN Abs(diff) * Tenth >= threshold
         ELSE Abs(diff) * Tenth > threshold

\* Delta.cmp(old, new)
Cmp(rule, old, new) ==
    LET diff == new - old
    IN IF rule.mode = "sign" THEN (old < 0 /\ 0 < new) \/ (new < 0 /\ 0 < old)
       ELSE IF diff = 0 THEN FALSE
       ELSE IF diff > 0
            THEN IF rule.plus = Undefined THEN FALSE
                 ELSE Exceeds(rule, diff, old, rule.plus)
            ELSE IF rule.minus = Undefined THEN FALSE
                 ELSE Exceeds(rule, diff, old, rule.minus)

\* ----------------------------------------------------------------- Differ
RecordKeys == 1..NumRecords

Colors == {"red", "green"}

Energies == {-2, 0, 2, 3}

\* create_record: the fields of a record beside its key
Records == [color : Colors, energy : Energies]

Collections == UNION {[K -> Records] : K \in SUBSET RecordKeys}

\* Delta("+-"), Delta("+-1"), Delta("+50-25=%")
DeltaSign == Rule("sign", Undefined, Undefined, FALSE, FALSE)

DeltaAbs1 == Rule("value", 1 * Tenth, 1 * Tenth, FALSE, FALSE)

DeltaPct == Rule("value", 50 * Tenth, 25 * Tenth, TRUE, TRUE)

\* Delta("+{}-{}=%".format(plus, minus)) with minus, plus = 10, 20
DeltaPct20_10 == Rule("value", 20 * Tenth, 10 * Tenth, TRUE, TRUE)

\* energies around the two percentage bounds, of both signs
PctEnergies == {-6, -5, 0, 5, 6}

PctRecords == [color : {"red"}, energy : PctEnergies]

PctCollections == UNION {[K -> PctRecords] : K \in SUBSET RecordKeys}

DeltaMaps ==
    {EmptyDict} \cup {[f \in {"energy"} |-> d] : d \in {DeltaSign, DeltaAbs1, DeltaPct}}

\* the fields of one key that differ under the configured props and deltas
Differing(a, b, ps, ds, k) ==
    {f \in ps : a[k][f] # b[k][f]}
        \cup {f \in DOMAIN ds : Cmp(ds[f], a[k][f], b[k][f])}

\* the entry of one changed key
ChangedEntry(a, b, k, fields) ==
    [key |-> k, old |-> [f \in fields |-> a[k][f]], new |-> [f \in fields |-> b[k][f]]]

\* the Changed bucket over the keys 1..k
RECURSIVE ChangedUpTo(_, _, _, _, _)
ChangedUpTo(a, b, ps, ds, k) ==
    IF k = 0 THEN << >>
    ELSE ChangedUpTo(a, b, ps, ds, k - 1)
         \o (IF k \in DOMAIN a /\ k \in DOMAIN b /\ Differing(a, b, ps, ds, k) # {}
             THEN <<ChangedEntry(a, b, k, Differing(a, b, ps, ds, k))>>
             ELSE << >>)

\* the records of the keys 1..k that are in a and not in b
RECURSIVE OnlyInUpTo(_, _, _)
OnlyInUpTo(a, b, k) ==
    IF k = 0 THEN << >>
    ELSE OnlyInUpTo(a, b, k - 1)
         \o (IF k \in DOMAIN a /\ k \notin DOMAIN b
             THEN <<[key |-> k, record |-> a[k]]>>
             ELSE << >>)

\* Differ.diff(collection_a, collection_b)
DifferDiff(a, b, ps, ds) ==
    [bucket \in {"missing", "additional", "different"} |->
        CASE bucket = "missing" -> OnlyInUpTo(a, b, NumRecords + 2)
          [] bucket = "additional" -> OnlyInUpTo(b, a, NumRecords + 2)
          [] bucket = "different" -> ChangedUpTo(a, b, ps, ds, NumRecords + 2)]

runnervars ==
    <<config, has_run, status, queue, processed_items, pc, loop_i, runs, stack,
      wpc, wpkt, calls, handed, exitcodes, dequeued, taken, procd, raised, mpivars>>

\* d = df.diff(*self.collections)
Diff ==
    /\ result = EmptyDict
    /\ result' = DifferDiff(coll_a, coll_b, props, deltas)
    /\ UNCHANGED <<runnervars, coll_a, coll_b, props, deltas, extra, cmpvars>>

\* mutant: the record is not stored
InsertNothing(coll, k, rec) == coll

\* coll.insert(rec), the record's key being k
Insert(coll, k, rec) ==
    [j \in DOMAIN coll \cup {k} |-> IF j = k THEN rec ELSE coll[j]]

\* the records test_key_different adds
ExtraRecords == {[color |-> "red", energy |-> 0]}

\* test_key_different: setUp has filled both collections with the same keys;
\* create_record(NUM_RECORDS + 1) is inserted into the first collection and
\* create_record(NUM_RECORDS + 2) into the second, before the diff of a
\* Differ(key) without props and deltas
TestKeyDifferent ==
    /\ result = EmptyDict
    /\ extra = << >>
    /\ props = {} /\ deltas = EmptyDict
    /\ DOMAIN coll_a = DOMAIN coll_b
    /\ \E ra, rb \in ExtraRecords :
          /\ coll_a' = Insert(coll_a, NumRecords + 1, ra)
          /\ coll_b' = Insert(coll_b, NumRecords + 2, rb)
    /\ extra' = <<NumRecords + 1, NumRecords + 2>>
    /\ UNCHANGED <<runnervars, props, deltas, result, cmpvars>>

\* the tests' expected counts
\* changed = sum((int(c[0] != c[1]) for c in self.colors))
ColorsDiffer(a, b) == a # b

\* mutant: >= for >
IsDifferentInclusive(a, b, delta) == Abs(a - b) >= delta

\* is_different = lambda a, b: abs(a - b) > delta
IsDifferent(a, b, delta) == Abs(a - b) > delta

\* mutant: a zero old or new value counts as negative
IsDifferentSignOrZero(a, b) == (a <= 0 /\ 0 < b) \/ (b <= 0 /\ 0 < a)

\* is_different = lambda a, b: a < 0 < b or b < 0 < a
IsDifferentSign(a, b) == (a < 0 /\ 0 < b) \/ (b < 0 /\ 0 < a)

\* def is_different(a, b): pct = 100.0 * (b - a) / a;
\*                        return pct <= -minus or pct >= plus
\* (a # 0; the quotient is compared without dividing)
IsDifferentPct(a, b, minus, plus) ==
    IF a > 0
    THEN 100 * (b - a) <= (-minus) * a \/ 100 * (b - a) >= plus * a
    ELSE 100 * (b - a) >= (-minus) * a \/ 100 * (b - a) <= plus * a

\* The rules of the Delta tests: Delta("+-3"), Delta("+2.5-1.5"),
\* Delta("+-3.0="), Delta("+-25%"), Delta("+-25=%"), Delta("+50"),
\* Delta("+50="), Delta("+50%"), Delta("-50"), Delta("-50="), Delta("-50%")
Delta3 == Rule("value", 3 * Tenth, 3 * Tenth, FALSE, FALSE)

Delta25_15 == Rule("value", 25, 15, FALSE, FALSE)

Delta3Eq == Rule("value", 3 * Tenth, 3 * Tenth, TRUE, FALSE)

Delta25Pct == Rule("value", 25 * Tenth, 25 * Tenth, FALSE, TRUE)

Delta25EqPct == Rule("value", 25 * Tenth, 25 * Tenth, TRUE, TRUE)

DeltaPlus50 == Rule("value", 50 * Tenth, Undefined, FALSE, FALSE)

DeltaPlus50Eq == Rule("value", 50 * Tenth, Undefined, TRUE, FALSE)

DeltaPlus50Pct == Rule("value", 50 * Tenth, Undefined, FALSE, TRUE)

DeltaMinus50 == Rule("value", Undefined, 50 * Tenth, FALSE, FALSE)

DeltaMinus50Eq == Rule("value", Undefined, 50 * Tenth, TRUE, FALSE)

DeltaMinus50Pct == Rule("value", Undefined, 50 * Tenth, FALSE, TRUE)

DeltaRules ==
    {DeltaSign, Delta3, Delta25_15, Delta3Eq, Delta25Pct, Delta25EqPct, DeltaPct,
     DeltaPlus50, DeltaPlus50Eq, DeltaPlus50Pct,
     DeltaMinus50, DeltaMinus50Eq, DeltaMinus50Pct}

\* the values handed to cmp: the tests' values among them
CmpValues == (-MaxValue..MaxValue) \cup {25, 50, 51}

\* test_delta_sign: <<rule, old, new, expected>>
TestDeltaSign ==
    {<<DeltaSign, 0, 1, FALSE>>, <<DeltaSign, -1, 0, FALSE>>, <<DeltaSign, -1, 1, TRUE>>}

\* mutant: an equal difference counts as larger
TestDeltaValSlip ==
    {<<Delta3, 0, 1, FALSE>>, <<Delta3, 1, 4, TRUE>>, <<Delta3, 1, 5, TRUE>>}

\* test_delta_val_sa, test_delta_val_da, test_delta_val_sae and the
\* absolute cases of test_delta_plus and test_delta_minus
TestDeltaVal ==
    {<<Delta3, 0, 1, FALSE>>, <<Delta3, 1, 4, FALSE>>, <<Delta3, 1, 5, TRUE>>,
     <<Delta25_15, 0, 1, FALSE>>, <<Delta25_15, 1, 3, FALSE>>, <<Delta25_15, 3, 1, TRUE>>,
     <<Delta3Eq, 0, 1, FALSE>>, <<Delta3Eq, 1, 4, TRUE>>, <<Delta3Eq, 4, 1, TRUE>>,
     <<DeltaPlus50, 0, 50, FALSE>>, <<DeltaPlus50, 0, 51, TRUE>>, <<DeltaPlus50, 10, 5, FALSE>>,
     <<DeltaPlus50Eq, 0, 50, TRUE>>,
     <<DeltaMinus50, 0, 50, FALSE>>, <<DeltaMinus50, 51, 0, TRUE>>, <<DeltaMinus50, 5, 10, FALSE>>,
     <<DeltaMinus50Eq, 50, 0, TRUE>>}

\* mutant: exactly 25 percent counts under the strict rule
TestDeltaPctSlip ==
    {<<Delta25Pct, 0, 1, FALSE>>, <<Delta25Pct, 8, 4, TRUE>>, <<Delta25Pct, 8, 6, TRUE>>}

\* test_delta_val_sp, test_delta_val_spe, test_delta_val_dpe and the
\* percentage cases of test_delta_plus and test_delta_minus
TestDeltaPct ==
    {<<Delta25Pct, 0, 1, FALSE>>, <<Delta25Pct, 8, 4, TRUE>>, <<Delta25Pct, 8, 6, FALSE>>,
     <<Delta25EqPct, 0, 1, FALSE>>, <<Delta25EqPct, 8, 4, TRUE>>, <<Delta25EqPct, 8, 6, TRUE>>,
     <<DeltaPct, 0, 1, FALSE>>, <<DeltaPct, 8, 4, TRUE>>, <<DeltaPct, 8, 6, TRUE>>,
     <<DeltaPct, 6, 8, FALSE>>, <<DeltaPct, 6, 9, TRUE>>,
     <<DeltaPlus50Pct, 10, 25, TRUE>>, <<DeltaPlus50Pct, 25, 10, FALSE>>,
     <<DeltaMinus50Pct, 25, 10, TRUE>>, <<DeltaMinus50Pct, 10, 25, FALSE>>}

\* d.cmp(old, new)
DeltaCmp ==
    /\ cmp_rule # EmptyDict
    /\ cmp_out = << >>
    /\ cmp_out' = <<Cmp(cmp_rule, cmp_old, cmp_new)>>
    /\ UNCHANGED <<runnervars, coll_a, coll_b, props, deltas, result, extra,
                   cmp_rule, cmp_old, cmp_new>>

\* ------------------------------------------------------------ specifications
Scheduler == Run \/ BuildDependenciesEnter \/ BuildDependenciesLoop \/ MarkRun

MultiprocMain ==
    \/ MultiprocConnectSources
    \/ MultiprocPutItems
    \/ MultiprocConnectTargets
    \/ MultiprocUpdateTargets
    \/ MultiprocFinalize

\* The serial Runner (use_mpi = False, num_workers = 1) over every list of
\* builders.
InitSerial ==
    /\ sources \in [Builders -> NameLists]
    /\ targets \in [Builders -> NameLists]
    /\ get_items \in [Builders -> {<<1>>}]
    /\ use_mpi = FALSE
    /\ num_workers = 1
    /\ size = 1
    /\ eager = TRUE
    /\ InitRunner
    /\ NoDiff

NextSerial == Scheduler \/ MultiprocMain \/ MultiprocSerialWorker

SpecSerial == InitSerial /\ [][NextSerial]_vars

MpiMain ==
    \/ MpiConnectSources
    \/ MpiGetItems
    \/ MpiSendItem
    \/ MpiRecv
    \/ MpiKillWorkers
    \/ MpiConnectTargets
    \/ MpiUpdateTargets
    \/ MpiFinalize

\* whether builder i depends on builder j
DependsOn(i, j) ==
    i # j /\ \E s \in Range(sources[i]) : s \in Range(targets[j])

\* builders reachable from i along at least one dependency edge
RECURSIVE ReachFrom(_, _)
ReachFrom(S, k) ==
    IF k = 0 THEN S
    ELSE ReachFrom(S \cup {j \in Builders : \E i \in S : DependsOn(i, j)}, k - 1)

Ancestors(i) == ReachFrom({j \in Builders : DependsOn(i, j)}, NumBuilders)

Acyclic == \A i \in Builders : i \notin Ancestors(i)

\* The first builder reads what the second writes, the second what the third
\* writes; further builders read and write nothing.
ChainSources ==
    [b \in Builders |-> IF b = 1 THEN <<"a">> ELSE IF b = 2 THEN <<"b">> ELSE << >>]

ChainTargets ==
    [b \in Builders |-> IF b = 2 THEN <<"a">> ELSE IF b = 3 THEN <<"b">> ELSE << >>]

\* The first two builders of the list yield items, further builders none.
ItemConfigs ==
    {f \in [Builders -> ItemLists] : \A b \in Builders : b > 2 => f[b] = << >>}

\* The multiprocessing Runner (use_mpi = False, num_workers > 1) over the
\* chain of builders and over the same builders without sources.
InitMulti ==
    /\ \/ sources = ChainSources /\ targets = ChainTargets
       \/ sources = [b \in Builders |-> << >>] /\ targets = ChainTargets
    /\ get_items \in ItemConfigs
    /\ use_mpi = FALSE
    /\ num_workers \in 2..MaxWorkers
    /\ size = 1
    /\ eager = TRUE
    /\ InitRunner
    /\ NoDiff

NextMulti ==
    \/ Scheduler
    \/ MultiprocMain
    \/ MultiprocStartWorkers
    \/ MultiprocJoin
    \/ \E w \in Workers : WorkerGet(w) \/ WorkerProcess(w) \/ WorkerEmpty(w)

SpecMulti == InitMulti /\ [][NextMulti]_vars

\* The MPI Runner (use_mpi = True) with 2..MaxSize ranks, its sends buffered
\* or not, over the chain of builders and over the same builders without
\* sources.
InitMpi ==
    /\ \/ sources = ChainSources /\ targets = ChainTargets
       \/ sources = [b \in Builders |-> << >>] /\ targets = ChainTargets
    /\ get_items \in ItemConfigs
    /\ use_mpi = TRUE
    /\ num_workers = 1
    /\ size \in 2..MaxSize
    /\ eager \in BOOLEAN
    /\ InitRunner
    /\ NoDiff

NextMpi ==
    \/ Scheduler
    \/ MpiMain
    \/ MpiJobKilled
    \/ \E r \in Ranks : RankRecv(r) \/ RankProcess(r)

SpecMpi == InitMpi /\ [][NextMpi]_vars

\* The serial Runner whose run() is called up to MaxRuns times.
NextRerun == NextSerial \/ RunAgain

SpecRerun == InitSerial /\ [][NextRerun]_vars

\* Every backend: the serial and the multiprocessing Runner and the MPI Runner.
Init == InitSerial \/ InitMulti \/ InitMpi

Next == NextSerial \/ NextMulti \/ NextMpi

Spec == Init /\ [][Next]_vars

\* Differ(key, props, deltas).diff over every pair of collections of records.
InitDiff ==
    /\ sources = [b \in Builders |-> << >>]
    /\ targets = [b \in Builders |-> << >>]
    /\ get_items = [b \in Builders |-> << >>]
    /\ use_mpi = FALSE
    /\ num_workers = 1
    /\ size = 1
    /\ eager = TRUE
    /\ InitRunner
    /\ \/ /\ coll_a \in Collections
          /\ coll_b \in Collections
          /\ props \in SUBSET {"color"}
          /\ deltas \in DeltaMaps
       \/ /\ coll_a \in PctCollections
          /\ coll_b \in PctCollections
          /\ props = {}
          /\ deltas = [f \in {"energy"} |-> DeltaPct20_10]
    /\ result = EmptyDict
    /\ extra = << >>
    /\ cmp_rule = EmptyDict
    /\ cmp_old = 0
    /\ cmp_new = 0
    /\ cmp_out = << >>

NextDiff == Diff \/ TestKeyDifferent

SpecDiff == InitDiff /\ [][NextDiff]_vars

\* Delta(rule).cmp(old, new) over the rules and values of the Delta tests.
InitDelta ==
    /\ sources = [b \in Builders |-> << >>]
    /\ targets = [b \in Builders |-> << >>]
    /\ get_items = [b \in Builders |-> << >>]
    /\ use_mpi = FALSE
    /\ num_workers = 1
    /\ size = 1
    /\ eager = TRUE
    /\ InitRunner
    /\ coll_a = EmptyDict
    /\ coll_b = EmptyDict
    /\ props = {}
    /\ deltas = EmptyDict
    /\ result = EmptyDict
    /\ extra = << >>
    /\ cmp_rule \in DeltaRules
    /\ cmp_old \in CmpValues
    /\ cmp_new \in CmpValues
    /\ cmp_out = << >>

SpecDelta == InitDelta /\ [][DeltaCmp]_vars

\* ------------------------------------------------------------------ claims
Started(b) == calls[b] # << >>

TimesCalled(b, c) == Cardinality({k \in DOMAIN calls[b] : calls[b][k] = c})

\* b's _run_builder has returned
Completed(b) == InSeq("update_targets", calls[b]) /\ Running # b

FullRun == <<"connect_sources", "get_items", "connect_targets", "update_targets", "finalize">>

IsPrefix(s, t) == Len(s) <= Len(t) /\ \A k \in DOMAIN s : s[k] = t[k]

Multiproc == ~use_mpi /\ num_workers > 1

Serial == ~use_mpi /\ num_workers = 1

\* C1: over an acyclic dependency graph, in any supplied order, a builder A
\* is not started (connect(sources=True)) before every builder B it depends
\* on has returned from its own run, finalize included.
C1_DependencyOrder ==
    \/ \A a, b \in Builders :
          (DependsOn(a, b) /\ Started(a)) => (Completed(b) /\ InSeq(b, has_run))
    \/ ~Acyclic

\* C1 witness: the chain X <- Y <- Z supplied dependents first has run to its end.
C1_Witness ==
    /\ pc = "done"
    /\ Started(1) /\ InSeq("finalize", calls[2]) /\ InSeq("finalize", calls[3])
    /\ DependsOn(1, 2) /\ DependsOn(2, 3)
    /\ Acyclic

\* C2: over an acyclic dependency graph no builder is ever run twice, and when
\* run() returns every builder has been run exactly once.
C2_ExactlyOnce ==
    \/ /\ \A b \in Builders : TimesCalled(b, "connect_sources") <= 1
       /\ pc = "done" =>
             \A b \in Builders :
                /\ TimesCalled(b, "connect_sources") = 1
                /\ TimesCalled(b, "update_targets") = 1
                /\ Cardinality({k \in DOMAIN has_run : has_run[k] = b}) = 1
    \/ ~Acyclic

\* C2 witness: run() has returned where builder 3 is a dependency of 1 and 2,
\* is reachable from 1 directly and through 2, and is linked to 1 by two names.
C2_Witness ==
    /\ pc = "done"
    /\ DependsOn(1, 2) /\ DependsOn(2, 3) /\ DependsOn(1, 3)
    /\ Len(LinksOfPair(sources, targets, 1, 3)) = 2
    /\ Acyclic

\* C3: the calls on one builder are connect(sources=True), get_items,
\* connect(sources=False), update_targets, finalize in this order, connect at
\* most twice and update_targets at most once, and no process_item call for an
\* item of a builder is pending or under way once its update_targets was called.
C3_CallOrder ==
    \A b \in Builders :
        /\ IsPrefix(calls[b], FullRun)
        /\ InSeq("update_targets", calls[b]) =>
              /\ \A w \in Workers : wpc[w] = "proc" => wpkt[w][1] # b
              /\ \A r \in Ranks : rpc[r] = "proc" => rbuf[r][1] # b

\* C4: in the multiprocessing backend a builder whose run has returned had
\* finalize called exactly when every worker started for it exited with code 0,
\* and at most once.
C4_FinalizeIffOwnWorkers ==
    Multiproc =>
        \A b \in Builders :
            /\ TimesCalled(b, "finalize") <= 1
            /\ Completed(b) =>
                  (InSeq("finalize", calls[b]) <=> \A k \in DOMAIN exitcodes[b] : exitcodes[b][k] = 0)

\* the builders run before b, and b itself
RunUpTo(b) ==
    {b} \cup (IF InSeq(b, has_run)
              THEN {has_run[q] : q \in {q \in DOMAIN has_run : \A p \in 1..q : has_run[p] # b}}
              ELSE Range(has_run))

\* C5: in the multiprocessing backend, while no process_item has raised, no
\* packet is dequeued or processed twice, and when update_targets is called
\* every packet enqueued so far has been dequeued and processed exactly once
\* and the mapping handed over holds exactly the keys of the items enqueued so
\* far: k keys for the k distinct-keyed items of the first builder run.
C5_EachPacketOnce ==
    (Multiproc /\ raised = {}) =>
        /\ \A b \in Builders : \A k \in DOMAIN get_items[b] :
              taken[b][k] <= 1 /\ procd[b][k] <= taken[b][k]
        /\ \A b \in Builders : handed[b] # << >> =>
              /\ \A c \in RunUpTo(b) : \A k \in DOMAIN get_items[c] :
                    taken[c][k] = 1 /\ procd[c][k] = 1
              /\ DOMAIN handed[b][1] = UNION {Range(get_items[c]) : c \in RunUpTo(b)}
              /\ (RunUpTo(b) = {b} /\ get_items[b] = [k \in DOMAIN get_items[b] |-> k]) =>
                    Cardinality(DOMAIN handed[b][1]) = Len(get_items[b])

\* C5 witness: the first builder run handed over MaxItems distinct keys, no
\* process_item having raised.
C5_Witness ==
    /\ Multiproc /\ raised = {}
    /\ \E b \in Builders :
          /\ handed[b] # << >>
          /\ RunUpTo(b) = {b}
          /\ Len(get_items[b]) = MaxItems
          /\ Cardinality(DOMAIN handed[b][1]) = MaxItems

\* C6: in the MPI backend the coordinator never receives more than n results
\* for a builder, sends termination signals only after n receives, and when it
\* goes on to connect(sources=False) it has done exactly n receives and sent
\* exactly size-1 termination signals, one to each worker rank; a rank never
\* receives more termination signals than were sent to it.
KillsTo(r) == Cardinality({b \in Builders : InSeq(r, kills[b])})

NonesIn(q) == Cardinality({k \in DOMAIN q : q[k] = None})

C6_ReceivesAndKills ==
    use_mpi =>
        /\ \A b \in Builders :
              /\ nrecv[b] <= Len(get_items[b])
              /\ kills[b] # << >> => nrecv[b] = Len(get_items[b])
              /\ Len(kills[b]) <= size - 1
              /\ \A i, j \in DOMAIN kills[b] : i # j => kills[b][i] # kills[b][j]
              /\ InSeq("connect_targets", calls[b]) =>
                    /\ nrecv[b] = Len(get_items[b])
                    /\ Len(kills[b]) = size - 1
                    /\ Range(kills[b]) = 1..(size - 1)
        /\ \A r \in Ranks :
              pc # "killed" => rruns[r] + NonesIn(chan[r]) = KillsTo(r)

\* C6 witness: with three ranks, a builder of three items (not a multiple of
\* size-1) and a builder of no item have both been run, and every rank has
\* received one termination signal per builder.
C6_Witness ==
    /\ use_mpi /\ size = 3 /\ pc = "done"
    /\ \E b, c \in Builders : Len(get_items[b]) = 3 /\ Len(get_items[c]) = 0
    /\ \A r \in 1..(size - 1) : rruns[r] = NumBuilders

\* C7: in the MPI backend, once process_item has raised on a worker rank the
\* coordinator does not stay in its receive loop waiting for a result no rank
\* will send, and it calls neither update_targets nor finalize for that builder.
WaitsForever ==
    /\ pc = "mpi_recv"
    /\ recv_i < n
    /\ \A r \in Ranks : rpc[r] \notin {"proc", "ssend"} /\ (rpc[r] = "recv" => chan[r] = << >>)

C7_AbortAtCoordinator ==
    (use_mpi /\ raised # {}) =>
        /\ ~WaitsForever
        /\ \A b \in raised : ~InSeq("update_targets", calls[b]) /\ ~InSeq("finalize", calls[b])

\* C8: in the multiprocessing backend run() never aborts and never stops
\* before its end; a builder during whose run a worker failed has had
\* connect(sources=False) and update_targets called but not finalize once its
\* run has returned; and when run() returns every builder, the dependents of a
\* failed one included, has been run through update_targets.
C8_FailureSkipsFinalizeOnly ==
    Multiproc =>
        /\ pc # "aborted"
        /\ pc # "done" => ENABLED NextMulti
        /\ \A b \in raised :
              /\ ~InSeq("finalize", calls[b])
              /\ Completed(b) =>
                    calls[b] = <<"connect_sources", "get_items", "connect_targets", "update_targets">>
        /\ pc = "done" =>
              \A b \in Builders : IsPrefix(SubSeq(FullRun, 1, 4), calls[b])

\* C8 witness: a worker failed during the run of builder 2, on which builder 1
\* depends, and run() has returned.
C8_Witness ==
    /\ Multiproc
    /\ pc = "done"
    /\ 2 \in raised /\ DependsOn(1, 2)
    /\ InSeq("update_targets", calls[2]) /\ InSeq("update_targets", calls[1])

\* C9: in the serial backend, once process_item has raised during the run of a
\* builder, run() is aborted: that builder has had only connect(sources=True)
\* and get_items called, it is not in has_run, and every other builder that
\* was ever started had already been marked as run.
C9_SerialAbort ==
    (Serial /\ raised # {}) =>
        /\ pc = "aborted"
        /\ \A b \in raised :
              /\ calls[b] = <<"connect_sources", "get_items">>
              /\ ~InSeq(b, has_run)
              /\ \A c \in Builders \ {b} : Started(c) => InSeq(c, has_run)

\* C9 witness: the second builder run raised, the third was never started.
C9_Witness ==
    /\ Serial /\ raised # {}
    /\ Len(has_run) = 1
    /\ \E c \in Builders : ~Started(c)

Shared == DOMAIN coll_a \cap DOMAIN coll_b

Diffed == result # EmptyDict

ChangedKeys == {result["different"][i].key : i \in DOMAIN result["different"]}

\* C10: a key of both collections is Changed exactly when a props field
\* differs or a deltas rule's cmp(old, new) is true; the Changed entries are
\* as many as these keys (as many as the tests count for a props-only and for
\* a "+-T" or "+-" Differ), and there is none without props and deltas.
C10_ChangedIff ==
    Diffed =>
        /\ ChangedKeys =
              {k \in Shared :
                  \/ \E f \in props : coll_a[k][f] # coll_b[k][f]
                  \/ \E f \in DOMAIN deltas : Cmp(deltas[f], coll_a[k][f], coll_b[k][f])}
        /\ Len(result["different"]) = Cardinality(ChangedKeys)
        /\ (props = {} /\ deltas = EmptyDict) => result["different"] = << >>
        /\ (props = {"color"} /\ deltas = EmptyDict) =>
              Len(result["different"]) =
                 Cardinality({k \in Shared : ColorsDiffer(coll_a[k].color, coll_b[k].color)})
        /\ (props = {} /\ deltas = [f \in {"energy"} |-> DeltaAbs1]) =>
              Len(result["different"]) =
                 Cardinality({k \in Shared : IsDifferent(coll_a[k].energy, coll_b[k].energy, 1)})
        /\ (props = {} /\ deltas = [f \in {"energy"} |-> DeltaSign]) =>
              Len(result["different"]) =
                 Cardinality({k \in Shared : IsDifferentSign(coll_a[k].energy, coll_b[k].energy)})

\* C10 witness: a diff under props and a delta rule left one shared key
\* changed and another unchanged.
C10_Witness ==
    /\ Diffed
    /\ props # {} /\ deltas # EmptyDict
    /\ Cardinality(Shared) = 2
    /\ Len(result["different"]) = 1

BucketKeys(bucket) == {result[bucket][i].key : i \in DOMAIN result[bucket]}

\* C11: Missing holds exactly the records whose key is only in the first
\* collection and Added/New exactly those whose key is only in the second,
\* each once; a key of both is in neither, so equal key sets leave both
\* empty, and one record of its own added to each of two collections of equal
\* keys gives one Missing and one Added entry with these keys.
C11_KeyBuckets ==
    Diffed =>
        /\ BucketKeys("missing") = DOMAIN coll_a \ DOMAIN coll_b
        /\ BucketKeys("additional") = DOMAIN coll_b \ DOMAIN coll_a
        /\ Len(result["missing"]) = Cardinality(DOMAIN coll_a \ DOMAIN coll_b)
        /\ Len(result["additional"]) = Cardinality(DOMAIN coll_b \ DOMAIN coll_a)
        /\ \A i \in DOMAIN result["missing"] :
              result["missing"][i].record = coll_a[result["missing"][i].key]
        /\ \A i \in DOMAIN result["additional"] :
              result["additional"][i].record = coll_b[result["additional"][i].key]
        /\ \A k \in Shared :
              k \notin BucketKeys("missing") /\ k \notin BucketKeys("additional")
        /\ DOMAIN coll_a = DOMAIN coll_b =>
              result["missing"] = << >> /\ result["additional"] = << >>
        /\ extra # << >> =>
              /\ Len(result["missing"]) = 1
              /\ result["missing"][1].key = extra[1]
              /\ Len(result["additional"]) = 1
              /\ result["additional"][1].key = extra[2]

\* C11 witness: the diff of two collections that share a key and have one
\* inserted key each.
C11_Witness ==
    /\ Diffed
    /\ extra # << >>
    /\ Shared # {}
    /\ Len(result["missing"]) = 1 /\ Len(result["additional"]) = 1

Compared == cmp_out # << >>

\* the tests' expectation for the call made, if they have one
Expected(table) ==
    \A t \in table :
        (t[1] = cmp_rule /\ t[2] = cmp_old /\ t[3] = cmp_new) => cmp_out[1] = t[4]

\* C12: a value rule without "%" answers false for diff = 0, for diff > 0
\* true iff the plus threshold is defined and diff > plus (>= when
\* inclusive), for diff < 0 true iff the minus threshold is defined and
\* |diff| > minus (>= when inclusive); so a plus-only rule never reports a
\* decrease and a minus-only rule never an increase; as the tests expect.
C12_ValueCmp ==
    (Compared /\ cmp_rule.mode = "value" /\ ~cmp_rule.percentage) =>
        LET diff == cmp_new - cmp_old
        IN /\ diff = 0 => cmp_out[1] = FALSE
           /\ diff > 0 =>
                 cmp_out[1] = (/\ cmp_rule.plus # Undefined
                               /\ IF cmp_rule.inclusive
                                  THEN diff * Tenth >= cmp_rule.plus
                                  ELSE diff * Tenth > cmp_rule.plus)
           /\ diff < 0 =>
                 cmp_out[1] = (/\ cmp_rule.minus # Undefined
                               /\ IF cmp_rule.inclusive
                                  THEN (-diff) * Tenth >= cmp_rule.minus
                                  ELSE (-diff) * Tenth > cmp_rule.minus)
           /\ (cmp_rule.minus = Undefined /\ diff < 0) => cmp_out[1] = FALSE
           /\ (cmp_rule.plus = Undefined /\ diff > 0) => cmp_out[1] = FALSE
           /\ Expected(TestDeltaVal)

\* C12 witness: "+2.5-1.5" has compared a decrease of 2 and answered true.
C12_Witness ==
    /\ Compared
    /\ cmp_rule = Delta25_15 /\ cmp_old = 3 /\ cmp_new = 1
    /\ cmp_out[1] = TRUE

C14_SignCmp ==
    (Compared /\ cmp_rule.mode = "sign") =>
        /\ cmp_out[1] = ((cmp_old < 0 /\ 0 < cmp_new) \/ (cmp_new < 0 /\ 0 < cmp_old))
        /\ cmp_out[1] = IsDifferentSign(cmp_old, cmp_new)
        /\ (cmp_old = 0 \/ cmp_new = 0) => cmp_out[1] = FALSE
        /\ Expected(TestDeltaSign)

\* C14 witness: "+-" has compared -1 with 1 and answered true.
C14_Witness ==
    /\ Compared
    /\ cmp_rule = DeltaSign /\ cmp_old = -1 /\ cmp_new = 1
    /\ cmp_out[1] = TRUE

\* C15: a Differ whose only rule is "+P-M=%" on energy reports as Changed
\* exactly the shared keys whose old value a (non-zero, of either sign) and
\* new value b satisfy 100*(b-a)/a <= -M or 100*(b-a)/a >= P, and as many
\* entries as there are such keys.
C15_PctChanged ==
    (/\ Diffed
     /\ props = {}
     /\ deltas = [f \in {"energy"} |-> DeltaPct20_10]
     /\ \A k \in Shared : coll_a[k].energy # 0) =>
        /\ ChangedKeys =
              {k \in Shared : IsDifferentPct(coll_a[k].energy, coll_b[k].energy, 10, 20)}
        /\ Len(result["different"]) =
              Cardinality({k \in Shared :
                              IsDifferentPct(coll_a[k].energy, coll_b[k].energy, 10, 20)})

\* C16: in the MPI backend every worker rank has at most one result that
\* it has sent and the coordinator has not yet received, and a rank holds a
\* next item (has received it, is processing it) only when the coordinator
\* has received all its earlier results.
C16_OneOutstanding ==
    use_mpi =>
        \A r \in Ranks :
            /\ sent[r] - got[r] \in {0, 1}
            /\ rpc[r] = "proc" => sent[r] = got[r]
            /\ sent[r] > got[r] => rpc[r] \in {"ssend", "dead"}

\* C16 witness: a rank whose first result was received waits with its
\* second result while an item sent to it is still in flight.
C16_Witness ==
    /\ use_mpi
    /\ \E r \in Ranks :
          /\ got[r] = 1 /\ sent[r] = 2
          /\ rpc[r] = "ssend"
          /\ chan[r] # << >>

\* the coordinator waits in comm.send for a rank that itself waits in
\* comm.ssend for the coordinator's receive
MutualWait ==
    /\ pc = "mpi_send"
    /\ n < Len(get_items[Top.id])
    /\ ~CanSend(worker_id)
    /\ rpc[worker_id] = "ssend"

\* C17: in the MPI backend with any number of items, more than size-1
\* included, and no failing process_item, a builder's run never deadlocks:
\* the coordinator is never held in a send of an item by a worker that is
\* held in the send of its result, so it goes on to receive the n results,
\* to send the termination signals and to update_targets.
C17_NeverDeadlocks ==
    (use_mpi /\ raised = {}) => ~MutualWait

\* C18: in both backends the mapping handed to a builder's update_targets
\* holds only entries that process_item produced for that builder's own
\* items; results of builders run earlier in the same run() are not handed
\* over again.
C18_OwnEntriesOnly ==
    \A b \in Builders :
        \A i \in DOMAIN handed[b] :
            \A k \in DOMAIN handed[b][i] : handed[b][i][k][1] = b

\* C19: in the local backend the queue is empty whenever the workers of a
\* builder have all finished, and every packet a worker dequeues carries the
\* index of the builder then running, also after worker failures.
C19_QueueDrained ==
    ~use_mpi =>
        /\ pc \in {"mp_connect_tgt", "mp_update", "mp_finalize"} => queue = << >>
        /\ \A d \in dequeued : d[1] = d[3]

\* builders on a dependency cycle of two or more builders
OnCycle == {b \in Builders : b \in Ancestors(b)}

\* the dependency edges <<i, j>>: builder i depends on builder j
Edges ==
    UNION {{<<i, j>> : j \in {k \in Builders : DependsOn(i, k)}} : i \in Builders}

\* the builders that can be run after everything they depend on: those
\* whose dependencies are all in S, taken k times starting from S
RECURSIVE Runnable(_, _, _)
Runnable(R, S, k) ==
    IF k = 0 THEN S
    ELSE Runnable(R, {b \in Builders : \A j \in Builders : <<b, j>> \in R => j \in S}, k - 1)

\* builders on a cycle or depending on one: the others can be ordered
Doomed == Builders \ Runnable(Edges, {}, NumBuilders)

\* the calls of _build_dependencies that frame p of the stack has made and
\* that have returned
Returned(p) ==
    LET deps == dependency_graph[stack[p].id]
        made == IF p < Len(stack) THEN stack[p].k - 1 ELSE stack[p].k
    IN {deps[q] : q \in 1..made}

SelfLoop(b) == \E s \in Range(sources[b]) : s \in Range(targets[b])

\* C20: with a dependency cycle between two or more builders run() detects
\* nothing: a call of _build_dependencies for a builder on the cycle or
\* depending on it never returns, no such builder is ever executed or marked
\* as run, and run() never completes; the recursion is cut short by nothing
\* but the interpreter's limit. A builder whose targets hold one of its own
\* sources is no cycle: without a cycle the recursion is never cut short and
\* run() ends only with every builder run.
C20_CycleNeverRuns ==
    LET doomed == Doomed
        cyclic == doomed # {}
    IN /\ \A b \in doomed : ~Started(b) /\ ~InSeq(b, has_run)
       /\ \A p \in DOMAIN stack : Returned(p) \cap doomed = {}
       /\ \A b \in doomed : b < loop_i => (stack # << >> /\ stack[1].id <= b)
       /\ cyclic => pc # "done"
       /\ (pc = "aborted" /\ raised = {}) => (cyclic /\ Len(stack) >= RecursionLimit)
       /\ ~cyclic =>
             /\ Len(stack) <= NumBuilders
             /\ pc = "done" => \A b \in Builders : Completed(b) /\ InSeq(b, has_run)

\* C20 witness: a builder that reads what it writes has run, and the
\* recursion through a cycle of two other builders, neither of them started,
\* has reached the interpreter's limit.
C20_Witness ==
    /\ pc = "aborted" /\ raised = {}
    /\ \E b \in Builders : SelfLoop(b) /\ InSeq(b, has_run) /\ InSeq("finalize", calls[b])
    /\ Cardinality(OnCycle) = 2
    /\ Doomed = OnCycle
    /\ \A b \in OnCycle : ~Started(b)

\* C21: every call of run() sequences each builder exactly once: when the
\* k-th run() on a Runner has returned every builder has been executed k
\* times, and a builder is started for the k-th time only after the builders
\* it depends on were executed k times.
C21_EveryRunSequences ==
    /\ \A a, b \in Builders :
          DependsOn(a, b) =>
             TimesCalled(a, "connect_sources") <= TimesCalled(b, "update_targets")
    /\ pc = "done" =>
          \A b \in Builders :
             /\ TimesCalled(b, "connect_sources") = runs
             /\ TimesCalled(b, "update_targets") = runs

=============================================================================
